---- MODULE Spec2Model ----
(***************************************************************************)
(* Verification model of the serac solid-mechanics / thermal core:         *)
(*   - the constitutive models of solid_functional_material.hpp            *)
(*     (LinearIsotropic, NeoHookean, J2),                                   *)
(*   - NonlinearSolidSolver (CompleteSetup, AdvanceTimestep),               *)
(*   - ThermalConductionFunctional (residual / Jacobian callbacks,          *)
(*     advanceTimestep).                                                    *)
(* Real numbers are modelled exactly as normalised rationals <<n, d>>.      *)
(* Square roots are taken only where the result is rational; the inputs    *)
(* are drawn from sets for which that is the case.                          *)
(***************************************************************************)
EXTENDS Integers, Sequences, FiniteSets, TLC

\* ------------------------------------------------------------------------
\* Bounds of the model
\* ------------------------------------------------------------------------
\* number of J2 stress evaluations explored at one quadrature point
MaxEvals == 2
MaxBCs == 2
MaxSteps == 2
NNodes == 2
Dim == 2
NTDofs == 2
MaxNewtonIterations == 2
MaxElements == 4
MaxQuadraturePoints == 2
\* elements_per_block of the launch configuration (16 in the test)
elements_per_block == 2
InitialDt == 0
InitialPreviousDt == -1

\* ------------------------------------------------------------------------
\* Exact rational arithmetic: <<n, d>> with d > 0 and gcd(|n|, d) = 1
\* ------------------------------------------------------------------------
\* F applied to the value of v (v is evaluated once)
Val(v, F(_)) == CHOOSE r \in {F(x) : x \in {v}} : TRUE

Abs(x) == IF x < 0 THEN -x ELSE x

RECURSIVE GCD(_, _)
GCD(a, b) == IF b = 0 THEN a ELSE Val(a % b, LAMBDA m : GCD(b, m))

Rat(n, d) ==
  Val(<<IF d < 0 THEN -n ELSE n, Abs(d)>>, LAMBDA s :
    Val(GCD(Abs(s[1]), s[2]), LAMBDA g : <<s[1] \div g, s[2] \div g>>))

R(n) == <<n, 1>>
RZero == <<0, 1>>
ROne == <<1, 1>>
\* a + b over the least common denominator
RAdd(a, b) ==
  Val(<<a, b, GCD(a[2], b[2])>>, LAMBDA p :
    Rat(p[1][1] * (p[2][2] \div p[3]) + p[2][1] * (p[1][2] \div p[3]),
        p[1][2] * (p[2][2] \div p[3])))
RNeg(a) == Val(a, LAMBDA p : <<-p[1], p[2]>>)
RSub(a, b) == RAdd(a, RNeg(b))
\* a * b, cancelling across the two fractions first
RMul(a, b) ==
  Val(<<a, b, GCD(Abs(a[1]), b[2]), GCD(Abs(b[1]), a[2])>>, LAMBDA p :
    Rat((p[1][1] \div p[3]) * (p[2][1] \div p[4]),
        (p[1][2] \div p[4]) * (p[2][2] \div p[3])))
RInv(a) == Val(a, LAMBDA p : IF p[1] < 0 THEN <<-p[2], -p[1]>> ELSE <<p[2], p[1]>>)
RDiv(a, b) == RMul(a, RInv(b))
RLe(a, b) == Val(<<a, b>>, LAMBDA p : p[1][1] * p[2][2] <= p[2][1] * p[1][2])
RLt(a, b) == Val(<<a, b>>, LAMBDA p : p[1][1] * p[2][2] < p[2][1] * p[1][2])
RPos(a) == a[1] > 0

\* floor(sqrt(n)) by bisection on lo..hi
RECURSIVE Bisect(_, _, _)
Bisect(n, lo, hi) ==
  IF lo >= hi THEN lo
  ELSE Val((lo + hi + 1) \div 2, LAMBDA mid :
         IF mid * mid <= n THEN Bisect(n, mid, hi) ELSE Bisect(n, lo, mid - 1))
ISqrt(n) == Val(n, LAMBDA v : Bisect(v, 0, IF v < 46340 THEN v ELSE 46340))
IsSquare(n) == Val(n, LAMBDA v : v >= 0 /\ Val(ISqrt(v), LAMBDA r : r * r = v))
\* sqrt of a rational is rational iff numerator and denominator are squares
IsRSquare(a) == Val(a, LAMBDA p : IsSquare(p[1]) /\ IsSquare(p[2]))
RSqrt(a) == Val(a, LAMBDA p : <<ISqrt(p[1]), ISqrt(p[2])>>)

\* ------------------------------------------------------------------------
\* tensor<T, dim, dim>: a sequence of dim rows, each a sequence of dim
\* rationals
\* ------------------------------------------------------------------------
TDim(A) == Len(A)
Zero(dim) == [i \in 1..dim |-> [j \in 1..dim |-> RZero]]
Identity(dim) == [i \in 1..dim |-> [j \in 1..dim |-> IF i = j THEN ROne ELSE RZero]]
TAdd(A, B) ==
  Val(<<A, B>>, LAMBDA p :
    [i \in 1..TDim(p[1]) |-> [j \in 1..TDim(p[1]) |-> RAdd(p[1][i][j], p[2][i][j])]])
TSub(A, B) ==
  Val(<<A, B>>, LAMBDA p :
    [i \in 1..TDim(p[1]) |-> [j \in 1..TDim(p[1]) |-> RSub(p[1][i][j], p[2][i][j])]])
TScale(c, A) ==
  Val(<<c, A>>, LAMBDA p :
    [i \in 1..TDim(p[2]) |-> [j \in 1..TDim(p[2]) |-> RMul(p[1], p[2][i][j])]])
transpose(A) ==
  Val(A, LAMBDA p : [i \in 1..TDim(p) |-> [j \in 1..TDim(p) |-> p[j][i]]])

\* f[1] + ... + f[n]
RECURSIVE RSum(_, _)
RSum(f, n) == IF n = 0 THEN RZero ELSE Val(f, LAMBDA g : RAdd(g[n], RSum(g, n - 1)))

tr(A) == Val(A, LAMBDA p : RSum([i \in 1..TDim(p) |-> p[i][i]], TDim(p)))
sym(A) == Val(A, LAMBDA p : TScale(Rat(1, 2), TAdd(p, transpose(p))))
dev(A) ==
  Val(A, LAMBDA p : TSub(p, TScale(RDiv(tr(p), R(TDim(p))), Identity(TDim(p)))))
dot(A, B) ==
  Val(<<A, B>>, LAMBDA p :
    [i \in 1..TDim(p[1]) |-> [j \in 1..TDim(p[1]) |->
       RSum([k \in 1..TDim(p[1]) |-> RMul(p[1][i][k], p[2][k][j])], TDim(p[1]))]])
\* double contraction A : B
inner(A, B) ==
  Val(<<A, B>>, LAMBDA p :
    RSum([i \in 1..TDim(p[1]) |->
            RSum([j \in 1..TDim(p[1]) |-> RMul(p[1][i][j], p[2][i][j])], TDim(p[1]))],
         TDim(p[1])))
\* norm(A)^2 (Frobenius)
NormSq(A) == Val(A, LAMBDA p : inner(p, p))
Det2(A) == RSub(RMul(A[1][1], A[2][2]), RMul(A[1][2], A[2][1]))
Det3(A) ==
  RAdd(RSub(RMul(A[1][1], RSub(RMul(A[2][2], A[3][3]), RMul(A[2][3], A[3][2]))),
            RMul(A[1][2], RSub(RMul(A[2][1], A[3][3]), RMul(A[2][3], A[3][1])))),
       RMul(A[1][3], RSub(RMul(A[2][1], A[3][2]), RMul(A[2][2], A[3][1]))))
det(A) == Val(A, LAMBDA p : IF TDim(p) = 2 THEN Det2(p) ELSE Det3(p))

\* sqrt(c) * normalize(A) = A * sqrt(c / norm(A)^2)
SqrtTimesUnit(c, A) == Val(A, LAMBDA p : TScale(RSqrt(RDiv(c, NormSq(p))), p))

\* ------------------------------------------------------------------------
\* State of the model
\* ------------------------------------------------------------------------
VARIABLES
  \* --- J2 material at one quadrature point ---
  mat,          \* the J2 instance: E, nu, Hi, Hk, sigma_y
  state,        \* J2::State: beta, plastic_strain, accumulated_plastic_strain
  committed,    \* State left by the last evaluation made for a converged step
  prev_state,   \* State passed to the last evaluation
  du_dX,        \* displacement gradient of the last evaluation
  prev_du,      \* displacement gradient of the evaluation before it
  stress,       \* stress returned by the last evaluation
  prev_stress,  \* stress returned by the evaluation before it
  last_trial,   \* the last evaluation was a Newton trial iteration
  evals,        \* number of evaluations so far
  \* --- stateless materials ---
  elastic,      \* the instance: K, G
  lin_du,       \* displacement gradient last given to LinearIsotropic
  lin_stress,   \* stress returned by LinearIsotropic
  lin_called,   \* LinearIsotropic has been evaluated
  neo_du,       \* displacement gradient last given to NeoHookean
  neo_stress,   \* stress returned by NeoHookean
  neo_called,   \* NeoHookean has been evaluated
  \* --- NonlinearSolidSolver ---
  m_timestepper,      \* serac::TimestepMethod of the solver
  m_time,             \* BaseSolver::m_time
  m_cycle,            \* BaseSolver::m_cycle
  m_ess_bdr,          \* registered essential boundary conditions, in order
  m_gf_initialized,   \* <<velocity, displacement>> initial state was set
  vel_gf,             \* m_velocity->gf
  vel_true,           \* m_velocity->true_vec  (block 0 of m_block)
  disp_gf,            \* m_displacement->gf
  disp_true,          \* m_displacement->true_vec  (block 1 of m_block)
  m_reference_nodes,  \* reference node coordinates
  m_deformed_nodes,   \* deformed node coordinates
  mesh_nodes,         \* which node set the mesh currently points to
  essential_dofs,     \* list given to m_H_form->SetEssentialTrueDofs
  setup_done,         \* CompleteSetup has run
  newton_converged,   \* GetConverged() of the solve of the last step
  step_failed,        \* what the last AdvanceTimestep reported to its caller
  before,             \* the solver's state when the last AdvanceTimestep began
  m_nat_bdr,          \* registered natural (traction) boundary conditions, in order
  aborted,            \* a fatal SLIC error has ended the run
  warnings,           \* number of SLIC warnings logged by CompleteSetup
  iterative_mode,     \* m_newton_solver.iterative_mode
  newton_initial,     \* the iterate the last quasi-static Newton solve started from
  \* --- ThermalConductionFunctional ---
  is_quasistatic_,        \* no dyn_options were given
  th_material,            \* the material of the integrals added by setMaterial
  th_source,              \* the source of the integral added by setSource
  bcs_,                   \* registered essential conditions
  th_essential,           \* essential dofs handed to M_functional_ and K_functional_
  gf_initialized_,        \* setTemperature was called
  th_setup,               \* completeSetup has run
  temperature_,           \* temperature_.trueVec()
  time_,                  \* BasePhysics::time_
  cycle_,                 \* BasePhysics::cycle_
  dt_,                    \* the current timestep
  previous_dt_,           \* the previous timestep
  u_,                     \* predicted temperature true dofs
  previous_,              \* previous value of du_dt
  functional_call_args_,  \* functional_call_args_[0]
  J_,                     \* the assembled Jacobian
  th_pc,                  \* where advanceTimestep and its Newton solve stand
  iterate,                \* the Newton solver's current iterate
  residual_r,             \* r of the last residual evaluation
  residual_called,        \* the residual was evaluated in this solve
  jacobian_requests,      \* Jacobian requests made in this solve
  last_request_assembled, \* the last Jacobian request assembled J_
  dyn_options,            \* options.dyn_options was given to the constructor
  adjoint_temperature_,   \* the adjoint temperature
  nonlin_operator,        \* the operator nonlin_solver_ was last given
  lin_operator,           \* the operator its linear solver was last given
  last_dual               \* dual_with_essential_boundary of the last solveAdjoint

VARIABLES
  num_elements,           \* mesh->GetNE()
  num_quadrature_points,  \* points of the quadrature rule of an element
  qd_source,                \* QuadratureData<int> source, by (element, point)
  qd_destination,           \* QuadratureData<int> destination
  fill_threads,           \* threads of the fill launch that have not run yet
  copy_threads,           \* threads of the copy launch that have not run yet
  synchronized            \* cudaDeviceSynchronize() has returned

j2vars == <<mat, state, committed, prev_state, du_dX, prev_du, stress, prev_stress,
            last_trial, evals>>
elvars == <<elastic, lin_du, lin_stress, lin_called, neo_du, neo_stress, neo_called>>
solidvars == <<m_timestepper, m_time, m_cycle, m_ess_bdr, m_gf_initialized, vel_gf, vel_true,
               disp_gf, disp_true, m_reference_nodes, m_deformed_nodes, mesh_nodes,
               essential_dofs, setup_done, newton_converged, step_failed, before,
               m_nat_bdr, aborted, warnings, iterative_mode, newton_initial>>
thermalvars == <<is_quasistatic_, th_material, th_source, bcs_, th_essential, gf_initialized_,
                 th_setup, temperature_, time_, cycle_, dt_, previous_dt_, u_, previous_,
                 functional_call_args_, J_, th_pc, iterate, residual_r, residual_called,
                 jacobian_requests, last_request_assembled, dyn_options,
                 adjoint_temperature_, nonlin_operator, lin_operator, last_dual>>
cudavars == <<num_elements, num_quadrature_points, qd_source, qd_destination, fill_threads,
              copy_threads, synchronized>>
vars == <<j2vars, elvars, solidvars, thermalvars, cudavars>>

\* ------------------------------------------------------------------------
\* Stateless materials
\* ------------------------------------------------------------------------
\* LinearIsotropic with epsilon offset by the identity (strain measured from
\* the wrong configuration)
LinearIsotropic_shifted(K, G, du) ==
  LET I       == Identity(TDim(du))
      lambda  == RSub(K, RMul(Rat(2, 3), G))
      epsilon == TAdd(sym(du), I)
  IN  TAdd(TScale(RMul(lambda, tr(epsilon)), I), TScale(RMul(R(2), G), epsilon))

\* LinearIsotropic::operator()
LinearIsotropic(K, G, du) ==
  LET I       == Identity(TDim(du))
      lambda  == RSub(K, RMul(Rat(2, 3), G))
      epsilon == TScale(Rat(1, 2), TAdd(transpose(du), du))
  IN  TAdd(TScale(RMul(lambda, tr(epsilon)), I), TScale(RMul(R(2), G), epsilon))

\* NeoHookean::operator().  The stress is lambda*log(det(I + du_dX))*I + G*B_minus_I;
\* log is kept symbolic: the result is the coefficient and the argument of the
\* logarithm together with the rational remainder.
NeoHookean(K, G, du) ==
  LET I         == Identity(TDim(du))
      lambda    == RSub(K, RMul(Rat(2, 3), G))
      B_minus_I == TAdd(TAdd(dot(du, transpose(du)), transpose(du)), du)
  IN  [logCoef |-> lambda, logArg |-> det(TAdd(I, du)), rest |-> TScale(G, B_minus_I)]

\* log(x) = 0 exactly when x = 1
NeoIsZero(s) == (s.logCoef = RZero \/ s.logArg = ROne) /\ s.rest = Zero(TDim(s.rest))

ElasticModuli ==
  {[K |-> k, G |-> g] : k \in {RZero, ROne, R(10), Rat(2, 3)}, g \in {ROne, R(3), Rat(1, 2)}}

Diag2(a, b) == <<<<a, RZero>>, <<RZero, b>>>>
Diag3(a, b, c) == <<<<a, RZero, RZero>>, <<RZero, b, RZero>>, <<RZero, RZero, c>>>>

ElasticGradients ==
  { Zero(2), Zero(3),
    Diag2(Rat(1, 2), RZero), Diag2(ROne, ROne),
    <<<<RZero, ROne>>, <<RZero, RZero>>>>,
    <<<<Rat(1, 2), R(2)>>, <<R(-1), Rat(1, 3)>>>>,
    Diag3(ROne, RZero, RZero), Diag3(Rat(1, 2), Rat(1, 2), Rat(-1, 2)),
    <<<<RZero, ROne, RZero>>, <<RZero, RZero, RZero>>, <<RZero, RZero, RZero>>>>,
    <<<<Rat(1, 2), R(3), RZero>>, <<RZero, Rat(1, 2), RZero>>, <<R(1), RZero, R(-1) >>>> }

NoNeoStress == [logCoef |-> RZero, logArg |-> ROne, rest |-> Zero(3)]

InitElastic ==
  /\ elastic \in ElasticModuli
  /\ lin_du = Zero(3)
  /\ lin_stress = Zero(3)
  /\ lin_called = FALSE
  /\ neo_du = Zero(3)
  /\ neo_stress = NoNeoStress
  /\ neo_called = FALSE

IdleElastic ==
  /\ elastic = [K |-> ROne, G |-> ROne]
  /\ lin_du = Zero(3)
  /\ lin_stress = Zero(3)
  /\ lin_called = FALSE
  /\ neo_du = Zero(3)
  /\ neo_stress = NoNeoStress
  /\ neo_called = FALSE

EvalLinearIsotropic(du) ==
  /\ lin_du' = du
  /\ lin_stress' = LinearIsotropic(elastic.K, elastic.G, du)
  /\ lin_called' = TRUE
  /\ UNCHANGED <<elastic, neo_du, neo_stress, neo_called>>
  /\ UNCHANGED <<j2vars, solidvars, thermalvars, cudavars>>

\* log(det(I + du_dX)) is defined for det(I + du_dX) > 0
EvalNeoHookean(du) ==
  /\ RPos(det(TAdd(Identity(TDim(du)), du)))
  /\ neo_du' = du
  /\ neo_stress' = NeoHookean(elastic.K, elastic.G, du)
  /\ neo_called' = TRUE
  /\ UNCHANGED <<elastic, lin_du, lin_stress, lin_called>>
  /\ UNCHANGED <<j2vars, solidvars, thermalvars, cudavars>>

\* ------------------------------------------------------------------------
\* J2 plasticity with linear isotropic and kinematic hardening
\* ------------------------------------------------------------------------
J2K(m) == RDiv(m.E, RMul(R(3), RSub(ROne, RMul(R(2), m.nu))))
J2G(m) == RDiv(RMul(Rat(1, 2), m.E), RAdd(ROne, m.nu))

\* the hardening modulus of (7.207): 3 G + Hk + Hi
Denominator(m) == RAdd(RAdd(RMul(R(3), J2G(m)), m.Hk), m.Hi)

\* (i) elastic predictor: el_strain, p, s, eta, q and phi of J2::operator().
\* q = sqrt(3/2) * norm(eta) is computed as sqrt((3/2) * norm(eta)^2); qsq is
\* its square.
Predictor(m, st, du) ==
  Val(TSub(sym(du), st.plastic_strain), LAMBDA el_strain :
    Val(TScale(RMul(R(2), J2G(m)), dev(el_strain)), LAMBDA s :
      Val(TSub(s, st.beta), LAMBDA eta :
        Val(RMul(Rat(3, 2), NormSq(eta)), LAMBDA qsq :
          [p   |-> RMul(J2K(m), tr(el_strain)),
           s   |-> s,
           eta |-> eta,
           qsq |-> qsq,
           phi |-> RSub(RSqrt(qsq),
                        RAdd(m.sigma_y, RMul(m.Hi, st.accumulated_plastic_strain)))]))))

\* the value returned by J2::operator(): s + p * I
Cauchy(s, p) == TAdd(s, TScale(p, Identity(3)))

\* the return mapping without the update of the back stress
ReturnMap_noBackStress(m, st, t, inc) ==
  [stress |-> Cauchy(TSub(t.s, TScale(RMul(J2G(m), inc), SqrtTimesUnit(R(6), t.eta))), t.p),
   state  |-> [plastic_strain |-> TAdd(st.plastic_strain,
                                       TScale(inc, SqrtTimesUnit(Rat(3, 2), t.eta))),
               beta |-> st.beta,
               accumulated_plastic_strain |-> RAdd(st.accumulated_plastic_strain, inc)]]

\* (iii) return mapping for the plastic strain increment inc, from the
\* predictor t
ReturnMap(m, st, t, inc) ==
  [stress |-> Cauchy(TSub(t.s, TScale(RMul(J2G(m), inc), SqrtTimesUnit(R(6), t.eta))), t.p),
   state  |-> [plastic_strain |-> TAdd(st.plastic_strain,
                                       TScale(inc, SqrtTimesUnit(Rat(3, 2), t.eta))),
               beta |-> TAdd(st.beta,
                             TScale(RMul(m.Hk, inc), SqrtTimesUnit(Rat(2, 3), t.eta))),
               accumulated_plastic_strain |-> RAdd(st.accumulated_plastic_strain, inc)]]

\* J2 without the admissibility test: the return mapping is applied whenever
\* eta can be normalised
J2_noAdmissibility(m, st, du) ==
  Val(Predictor(m, st, du), LAMBDA t :
    IF t.qsq # RZero
    THEN ReturnMap(m, st, t, RDiv(t.phi, Denominator(m)))
    ELSE [stress |-> Cauchy(t.s, t.p), state |-> st])

\* J2 with the isotropic hardening constant left out of the increment
J2_noHi(m, st, du) ==
  Val(Predictor(m, st, du), LAMBDA t :
    IF RPos(t.phi)
    THEN ReturnMap(m, st, t, RDiv(t.phi, RAdd(RMul(R(3), J2G(m)), m.Hk)))
    ELSE [stress |-> Cauchy(t.s, t.p), state |-> st])

\* J2 with the plastic strain increment halved
J2_halfIncrement(m, st, du) ==
  Val(Predictor(m, st, du), LAMBDA t :
    IF RPos(t.phi)
    THEN ReturnMap(m, st, t, RDiv(t.phi, RMul(R(2), Denominator(m))))
    ELSE [stress |-> Cauchy(t.s, t.p), state |-> st])

\* J2::operator(): the returned stress and the State it leaves behind
J2(m, st, du) ==
  Val(Predictor(m, st, du), LAMBDA t :
    IF RPos(t.phi)
    THEN ReturnMap(m, st, t, RDiv(t.phi, Denominator(m)))
    ELSE [stress |-> Cauchy(t.s, t.p), state |-> st])

J2Params(E, nu, Hi, Hk, sigma_y) ==
  [E |-> E, nu |-> nu, Hk |-> Hk, Hi |-> Hi, sigma_y |-> sigma_y]

J2Materials ==
  { J2Params(R(2), RZero, RZero, RZero, ROne),
    J2Params(Rat(5, 2), Rat(1, 4), ROne, ROne, ROne),
    J2Params(R(6), RZero, R(2), ROne, R(2)) }

J2Gradients ==
  { Zero(3),
    Diag3(Rat(1, 4), RZero, RZero), Diag3(Rat(1, 2), RZero, RZero),
    Diag3(ROne, RZero, RZero), Diag3(Rat(7, 2), RZero, RZero),
    Diag3(Rat(11, 2), RZero, RZero), Diag3(R(-1), RZero, RZero),
    Diag3(ROne, ROne, ROne),
    <<<<Rat(1, 2), R(3), RZero>>, <<RZero, Rat(1, 2), RZero>>, <<RZero, RZero, R(-1)>>>>,
    <<<<Rat(1, 2), RZero, RZero>>, <<R(3), Rat(1, 2), RZero>>, <<RZero, RZero, R(-1)>>>> }

\* State{} : zero-initialised
ZeroState ==
  [plastic_strain |-> Zero(3), beta |-> Zero(3), accumulated_plastic_strain |-> RZero]

InitJ2 ==
  /\ mat \in J2Materials
  /\ state = ZeroState
  /\ committed = ZeroState
  /\ prev_state = ZeroState
  /\ du_dX = Zero(3)
  /\ prev_du = Zero(3)
  /\ stress = Zero(3)
  /\ prev_stress = Zero(3)
  /\ last_trial = FALSE
  /\ evals = 0

IdleJ2 ==
  /\ mat = J2Params(R(2), RZero, RZero, RZero, ROne)
  /\ state = ZeroState
  /\ committed = ZeroState
  /\ prev_state = ZeroState
  /\ du_dX = Zero(3)
  /\ prev_du = Zero(3)
  /\ stress = Zero(3)
  /\ prev_stress = Zero(3)
  /\ last_trial = FALSE
  /\ evals = 0

\* One call of J2::operator() on the quadrature point's State, made either
\* for a Newton trial iterate (trial) or for the converged step.  The
\* operator is not told which.
EvalJ2(du, trial) ==
  /\ evals < MaxEvals
  /\ IsRSquare(Predictor(mat, state, du).qsq)
  /\ \E r \in {J2(mat, state, du)} :
       /\ state' = r.state
       /\ stress' = r.stress
       /\ committed' = IF trial THEN committed ELSE r.state
  /\ prev_state' = state
  /\ prev_stress' = stress
  /\ prev_du' = du_dX
  /\ du_dX' = du
  /\ last_trial' = trial
  /\ evals' = evals + 1
  /\ UNCHANGED mat
  /\ UNCHANGED <<elvars, solidvars, thermalvars, cudavars>>

\* ------------------------------------------------------------------------
\* NonlinearSolidSolver: displacement and velocity fields on a small mesh
\* ------------------------------------------------------------------------
\* The mesh has NNodes nodes and the fields have Dim components per node,
\* ordered byVDIM.  It is held by one rank, so that true dofs and local vector
\* dofs are numbered alike.  Boundary attribute a marks node a - 1.
Nodes == 0 .. (NNodes - 1)
Comps == 0 .. (Dim - 1)
VDofs == 0 .. (NNodes * Dim - 1)

DofToVDof(dof, comp) == dof * Dim + comp
VDofToDof(vdof) == vdof \div Dim
VDofToComp(vdof) == vdof % Dim

\* mfem coefficients: value rate * t + base at every point, component c of a
\* vector coefficient being shifted by c.  time is the coefficient's own
\* clock, moved by SetTime only.
ScalarCoefficient(rate, base) == [rate |-> rate, base |-> base, kind |-> "scalar", time |-> 0]
VectorCoefficient(rate, base) == [rate |-> rate, base |-> base, kind |-> "vector", time |-> 0]
SetTime(coef, t) == [coef EXCEPT !.time = t]
CoefAt(coef, comp, t) ==
  coef.rate * t + coef.base + (IF coef.kind = "vector" THEN comp ELSE 0)
Eval(coef, comp) == CoefAt(coef, comp, coef.time)

\* ParGridFunction::ProjectCoefficient(VectorCoefficient &)
ProjectVector(coef) == [d \in VDofs |-> Eval(coef, VDofToComp(d))]

\* ParGridFunction::ProjectCoefficient(VectorCoefficient &, Array<int> &dofs)
ProjectVectorOn(gf, coef, dof_list) ==
  [d \in VDofs |->
     IF \E i \in DOMAIN dof_list : VDofToDof(d) = dof_list[i]
     THEN Eval(coef, VDofToComp(d))
     ELSE gf[d]]

\* ParGridFunction::ProjectCoefficient(Coefficient &, Array<int> &dofs, int vd)
ProjectScalarOn(gf, coef, dof_list, vd) ==
  [d \in VDofs |->
     IF \E i \in DOMAIN dof_list : d = DofToVDof(dof_list[i], vd)
     THEN Eval(coef, vd)
     ELSE gf[d]]

\* ParGridFunction::GetTrueDofs and SetFromTrueDofs on one rank
GetTrueDofs(gf) == [d \in VDofs |-> gf[d]]
SetFromTrueDofs(tv) == [d \in VDofs |-> tv[d]]

\* the ascending sequence of the elements of the set S
RECURSIVE SortedSeq(_)
SortedSeq(S) ==
  IF S = {} THEN <<>>
  ELSE Val(CHOOSE x \in S : \A y \in S : x <= y, LAMBDA x : <<x>> \o SortedSeq(S \ {x}))

SeqRange(q) == {q[i] : i \in DOMAIN q}

\* the array left as it was appended
SortUnique_asAppended(q) == q

\* Array<int>::Sort followed by Array<int>::Unique
SortUnique(q) == SortedSeq(SeqRange(q))

\* ParFiniteElementSpace::GetEssentialTrueDofs: the dofs of the marked
\* boundary nodes, of one component or (component = -1) of all
EssentialTrueDofs(markers, component) ==
  SortedSeq({DofToVDof(a - 1, c) : a \in markers,
                                   c \in IF component = -1 THEN Comps ELSE {component}})

\* BaseSolver::SetEssentialBCs: the condition appended to m_ess_bdr
BoundaryCondition(markers, coef, component) ==
  [coef |-> coef, markers |-> markers, component |-> component,
   true_dofs |-> EssentialTrueDofs(markers, component)]

ZeroVector == [d \in VDofs |-> 0]

\* node coordinates of the mesh handed to the constructor
MeshNodes == [d \in VDofs |-> d + 1]

TimestepMethods == {"QuasiStatic", "BackwardEuler"}

Snapshot ==
  [m_time |-> m_time, m_cycle |-> m_cycle, vel_gf |-> vel_gf, vel_true |-> vel_true,
   disp_gf |-> disp_gf, disp_true |-> disp_true, m_deformed_nodes |-> m_deformed_nodes,
   mesh_nodes |-> mesh_nodes]

\* the state after NonlinearSolidSolver's constructor
InitSolidWith(method) ==
  /\ m_timestepper = method
  /\ m_time = 0
  /\ m_cycle = 0
  /\ m_ess_bdr = <<>>
  /\ m_gf_initialized = <<FALSE, FALSE>>
  /\ vel_gf = ZeroVector
  /\ vel_true = ZeroVector
  /\ disp_gf = ZeroVector
  /\ disp_true = ZeroVector
  /\ m_reference_nodes = MeshNodes
  /\ m_deformed_nodes = MeshNodes
  /\ mesh_nodes = "reference"
  /\ essential_dofs = <<>>
  /\ setup_done = FALSE
  /\ newton_converged = TRUE
  /\ step_failed = FALSE
  /\ before = [m_time |-> 0, m_cycle |-> 0, vel_gf |-> ZeroVector, vel_true |-> ZeroVector,
               disp_gf |-> ZeroVector, disp_true |-> ZeroVector,
               m_deformed_nodes |-> MeshNodes, mesh_nodes |-> "reference"]
  /\ m_nat_bdr = <<>>
  /\ aborted = FALSE
  /\ warnings = 0
  /\ iterative_mode = FALSE
  /\ newton_initial = ZeroVector

InitSolid == \E method \in TimestepMethods : InitSolidWith(method)

IdleSolid == InitSolidWith("QuasiStatic")

BdrMarkers == {{1}, 1 .. NNodes}
CoefRates == {0, 1}

\* SetDisplacementBCs(disp_bdr, VectorCoefficient)
SetDisplacementBCs(disp_bdr, disp_bdr_coef) ==
  /\ ~aborted
  /\ ~setup_done
  /\ Len(m_ess_bdr) + Len(m_nat_bdr) < MaxBCs
  /\ m_ess_bdr' = Append(m_ess_bdr, BoundaryCondition(disp_bdr, disp_bdr_coef, -1))
  /\ UNCHANGED <<m_timestepper, m_time, m_cycle, m_gf_initialized, vel_gf, vel_true, disp_gf,
                 disp_true, m_reference_nodes, m_deformed_nodes, mesh_nodes, essential_dofs,
                 setup_done, newton_converged, step_failed, before>>
  /\ UNCHANGED <<m_nat_bdr, aborted, warnings, iterative_mode, newton_initial>>
  /\ UNCHANGED <<j2vars, elvars, thermalvars, cudavars>>

\* SetDisplacementBCs(disp_bdr, Coefficient, component)
SetDisplacementBCsComponent(disp_bdr, disp_bdr_coef, component) ==
  /\ ~aborted
  /\ ~setup_done
  /\ Len(m_ess_bdr) + Len(m_nat_bdr) < MaxBCs
  /\ m_ess_bdr' = Append(m_ess_bdr, BoundaryCondition(disp_bdr, disp_bdr_coef, component))
  /\ UNCHANGED <<m_timestepper, m_time, m_cycle, m_gf_initialized, vel_gf, vel_true, disp_gf,
                 disp_true, m_reference_nodes, m_deformed_nodes, mesh_nodes, essential_dofs,
                 setup_done, newton_converged, step_failed, before>>
  /\ UNCHANGED <<m_nat_bdr, aborted, warnings, iterative_mode, newton_initial>>
  /\ UNCHANGED <<j2vars, elvars, thermalvars, cudavars>>

\* BaseSolver::SetTrueDofs(true_dofs, ess_bdr_coef, component): an essential
\* condition given by its true dofs, with either kind of coefficient
SetTrueDofs(true_dofs, ess_bdr_coef, component) ==
  /\ ~aborted
  /\ ~setup_done
  /\ Len(m_ess_bdr) + Len(m_nat_bdr) < MaxBCs
  /\ m_ess_bdr' = Append(m_ess_bdr, [coef |-> ess_bdr_coef, markers |-> {},
                                     component |-> component, true_dofs |-> true_dofs])
  /\ UNCHANGED <<m_timestepper, m_time, m_cycle, m_gf_initialized, vel_gf, vel_true, disp_gf,
                 disp_true, m_reference_nodes, m_deformed_nodes, mesh_nodes, essential_dofs,
                 setup_done, newton_converged, step_failed, before>>
  /\ UNCHANGED <<m_nat_bdr, aborted, warnings, iterative_mode, newton_initial>>
  /\ UNCHANGED <<j2vars, elvars, thermalvars, cudavars>>

\* BaseSolver::SetNaturalBCs(nat_bdr, nat_bdr_coef, component): a natural
\* condition with either kind of coefficient; no dofs are resolved
SetNaturalBCs(nat_bdr, nat_bdr_coef, component) ==
  /\ ~aborted
  /\ ~setup_done
  /\ Len(m_ess_bdr) + Len(m_nat_bdr) < MaxBCs
  /\ m_nat_bdr' = Append(m_nat_bdr, [coef |-> nat_bdr_coef, markers |-> nat_bdr,
                                     component |-> component])
  /\ UNCHANGED <<m_timestepper, m_time, m_cycle, m_ess_bdr, m_gf_initialized, vel_gf, vel_true,
                 disp_gf, disp_true, m_reference_nodes, m_deformed_nodes, mesh_nodes,
                 essential_dofs, setup_done, newton_converged, step_failed, before>>
  /\ UNCHANGED <<aborted, warnings, iterative_mode, newton_initial>>
  /\ UNCHANGED <<j2vars, elvars, thermalvars, cudavars>>

\* SetTractionBCs(trac_bdr, VectorCoefficient, component): SetNaturalBCs with
\* a coefficient that the signature makes a vector coefficient
SetTractionBCs(trac_bdr, trac_bdr_coef, component) ==
  /\ ~aborted
  /\ ~setup_done
  /\ Len(m_ess_bdr) + Len(m_nat_bdr) < MaxBCs
  /\ trac_bdr_coef.kind = "vector"
  /\ m_nat_bdr' = Append(m_nat_bdr, [coef |-> trac_bdr_coef, markers |-> trac_bdr,
                                     component |-> component])
  /\ UNCHANGED <<m_timestepper, m_time, m_cycle, m_ess_bdr, m_gf_initialized, vel_gf, vel_true,
                 disp_gf, disp_true, m_reference_nodes, m_deformed_nodes, mesh_nodes,
                 essential_dofs, setup_done, newton_converged, step_failed, before>>
  /\ UNCHANGED <<aborted, warnings, iterative_mode, newton_initial>>
  /\ UNCHANGED <<j2vars, elvars, thermalvars, cudavars>>

\* SetDisplacement(disp_state): the initial displacement, given once before
\* CompleteSetup
SetDisplacement(disp_state) ==
  /\ ~aborted
  /\ ~setup_done
  /\ ~m_gf_initialized[2]
  /\ disp_gf' = ProjectVector(SetTime(disp_state, m_time))
  /\ m_gf_initialized' = [m_gf_initialized EXCEPT ![2] = TRUE]
  /\ UNCHANGED <<m_timestepper, m_time, m_cycle, m_ess_bdr, vel_gf, vel_true,
                 disp_true, m_reference_nodes, m_deformed_nodes, mesh_nodes, essential_dofs,
                 setup_done, newton_converged, step_failed, before>>
  /\ UNCHANGED <<m_nat_bdr, aborted, warnings, iterative_mode, newton_initial>>
  /\ UNCHANGED <<j2vars, elvars, thermalvars, cudavars>>

\* SetVelocity(velo_state): the initial velocity, given once before
\* CompleteSetup
SetVelocity(velo_state) ==
  /\ ~aborted
  /\ ~setup_done
  /\ ~m_gf_initialized[1]
  /\ vel_gf' = ProjectVector(SetTime(velo_state, m_time))
  /\ m_gf_initialized' = [m_gf_initialized EXCEPT ![1] = TRUE]
  /\ UNCHANGED <<m_timestepper, m_time, m_cycle, m_ess_bdr, vel_true, disp_gf,
                 disp_true, m_reference_nodes, m_deformed_nodes, mesh_nodes, essential_dofs,
                 setup_done, newton_converged, step_failed, before>>
  /\ UNCHANGED <<m_nat_bdr, aborted, warnings, iterative_mode, newton_initial>>
  /\ UNCHANGED <<j2vars, elvars, thermalvars, cudavars>>

\* std::transform of bc.true_dofs by VDofToDof
DofList(bc) == [i \in DOMAIN bc.true_dofs |-> VDofToDof(bc.true_dofs[i])]

\* the projection of one essential condition into the displacement
ProjectBC(gf, bc) ==
  IF bc.component = -1
  THEN ProjectVectorOn(gf, bc.coef, DofList(bc))
  ELSE ProjectScalarOn(gf, bc.coef, DofList(bc), bc.component)

\* a transform that never warns
MismatchedDofs_silent(bc) == {}

\* SLIC_WARNING_IF of the transform: the true dofs of a single-component
\* condition that are not dofs of that component
MismatchedDofs(bc) ==
  IF bc.component = -1 THEN {}
  ELSE {i \in DOMAIN bc.true_dofs :
          bc.true_dofs[i] # DofToVDof(VDofToDof(bc.true_dofs[i]), bc.component)}

\* branches that take the coefficient without asking for its variant
WrongVariant_unchecked(bc) == FALSE

\* SLIC_ERROR_IF(!std::holds_alternative<...>(bc.coef)) of the two branches
WrongVariant(bc) ==
  IF bc.component = -1 THEN bc.coef.kind # "vector" ELSE bc.coef.kind # "scalar"

\* SLIC_ERROR_IF of the traction loop: some natural condition has a
\* coefficient that is not a vector coefficient
TractionError(nat_bdr) == \E i \in DOMAIN nat_bdr : nat_bdr[i].coef.kind # "vector"

\* the loop over m_ess_bdr of CompleteSetup, from condition i on: the
\* displacement, the essential dof list and the number of warnings it leaves,
\* and whether a fatal error stopped it
RECURSIVE ProjectEssential(_, _, _, _, _)
ProjectEssential(gf, dofs, warned, bcs, i) ==
  IF i > Len(bcs) THEN [gf |-> gf, dofs |-> dofs, warned |-> warned, failed |-> FALSE]
  ELSE IF WrongVariant(bcs[i])
       THEN [gf |-> gf, dofs |-> dofs,
             warned |-> warned + Cardinality(MismatchedDofs(bcs[i])), failed |-> TRUE]
       ELSE ProjectEssential(ProjectBC(gf, bcs[i]), dofs \o bcs[i].true_dofs,
                             warned + Cardinality(MismatchedDofs(bcs[i])), bcs, i + 1)

\* m_newton_solver.iterative_mode as CompleteSetup sets it for the regime
IterativeMode(method) == method = "QuasiStatic"

\* CompleteSetup().  A fatal SLIC error ends the run where it is raised.
CompleteSetup ==
  /\ ~aborted
  /\ ~setup_done
  /\ IF TractionError(m_nat_bdr)
     THEN /\ aborted' = TRUE
          /\ UNCHANGED <<disp_gf, essential_dofs, setup_done, warnings, iterative_mode>>
     ELSE \E r \in {ProjectEssential(disp_gf, <<>>, 0, m_ess_bdr, 1)} :
            /\ disp_gf' = r.gf
            /\ warnings' = warnings + r.warned
            /\ aborted' = r.failed
            /\ essential_dofs' = IF r.failed THEN essential_dofs ELSE SortUnique(r.dofs)
            /\ setup_done' = ~r.failed
            /\ iterative_mode' = IF r.failed THEN iterative_mode
                                  ELSE IterativeMode(m_timestepper)
  /\ UNCHANGED <<m_timestepper, m_time, m_cycle, m_ess_bdr, m_gf_initialized, vel_gf, vel_true,
                 disp_true, m_reference_nodes, m_deformed_nodes, mesh_nodes,
                 newton_converged, step_failed, before, m_nat_bdr, newton_initial>>
  /\ UNCHANGED <<j2vars, elvars, thermalvars, cudavars>>

\* iterates a solve may end at
Iterates ==
  {ZeroVector, [d \in VDofs |-> 1], [d \in VDofs |-> (d % 2) + 1]}

\* NewtonSolver::Mult on the form with essential true dofs ess, started at
\* x0: the essential entries of the iterate are never updated
NewtonIterates(x0, ess) ==
  {[d \in VDofs |-> IF d \in SeqRange(ess) THEN x0[d] ELSE x[d]] : x \in Iterates}

\* a Newton solve that always starts from zero
InitialIterate_cold(mode, x) == ZeroVector

\* NewtonSolver::Mult(b, x): x is the initial iterate in iterative mode, and
\* is set to zero first otherwise
InitialIterate(mode, x) == IF mode THEN x ELSE ZeroVector

\* QuasiStaticSolve(): m_newton_solver.Mult(zero, *m_displacement->true_vec)
QuasiStaticSolve(x0) == NewtonIterates(InitialIterate(iterative_mode, x0), essential_dofs)

\* m_ode_solver->Step(*m_block, m_time, dt) on NonlinearSolidDynamicOperator:
\* the displacement keeps its essential entries, the time advances by dt
OdeStep(v0, x0, t, dt) ==
  {[time |-> t + dt, velocity |-> v, displacement |-> x] :
     v \in {ZeroVector, [d \in VDofs |-> 1]}, x \in NewtonIterates(x0, essential_dofs)}

VAdd(a, b) == [d \in VDofs |-> a[d] + b[d]]

\* the geometry update without the reference nodes
DeformedNodes_noReference(method, gf, reference) == gf

\* m_deformed_nodes after Set(1.0, *m_displacement->gf) and, in the
\* quasi-static regime, Add(1.0, *m_reference_nodes)
DeformedNodes(method, gf, reference) ==
  IF method = "QuasiStatic" THEN VAdd(gf, reference) ELSE gf

TimestepSizes == {1, 2}

\* a step that leaves the counter alone
NextCycle_unchanged(cycle) == cycle

\* m_cycle += 1 and cycle_ += 1
NextCycle(cycle) == cycle + 1

\* AdvanceTimestep(dt).  converged is what the Newton solver's GetConverged()
\* would answer after the solve; the function does not ask for it and
\* returns nothing.
AdvanceTimestep(dt, converged) ==
  /\ ~aborted
  /\ setup_done
  /\ m_cycle < MaxSteps
  /\ before' = Snapshot
  /\ newton_initial' =
       IF m_timestepper = "QuasiStatic"
       THEN InitialIterate(iterative_mode, GetTrueDofs(disp_gf))
       ELSE newton_initial
  /\ \E r \in (IF m_timestepper = "QuasiStatic"
               THEN {[time |-> m_time, velocity |-> GetTrueDofs(vel_gf), displacement |-> x] :
                       x \in QuasiStaticSolve(GetTrueDofs(disp_gf))}
               ELSE OdeStep(GetTrueDofs(vel_gf), GetTrueDofs(disp_gf), m_time, dt)) :
       /\ vel_true' = r.velocity
       /\ disp_true' = r.displacement
       /\ m_time' = r.time
       /\ vel_gf' = SetFromTrueDofs(r.velocity)
       /\ disp_gf' = SetFromTrueDofs(r.displacement)
       /\ m_deformed_nodes' =
            DeformedNodes(m_timestepper, SetFromTrueDofs(r.displacement), m_reference_nodes)
  /\ mesh_nodes' = "deformed"
  /\ m_cycle' = NextCycle(m_cycle)
  /\ newton_converged' = converged
  /\ step_failed' = FALSE
  /\ UNCHANGED <<m_timestepper, m_ess_bdr, m_gf_initialized, m_reference_nodes,
                 essential_dofs, setup_done>>
  /\ UNCHANGED <<m_nat_bdr, aborted, warnings, iterative_mode>>
  /\ UNCHANGED <<j2vars, elvars, thermalvars, cudavars>>

\* ------------------------------------------------------------------------
\* ThermalConductionFunctional: temperature on a chain of NTDofs nodes
\* ------------------------------------------------------------------------
\* One linear element between neighbouring nodes, unit lengths and nodal
\* quadrature.  Boundary attribute a marks node a.
TDofs == 1 .. NTDofs

TZero == [i \in TDofs |-> 0]

\* add(a, x, b, y, z): z = a x + b y
add(a, x, b, y) == [i \in TDofs |-> a * x[i] + b * y[i]]

\* temperature vectors handed to the solver and trial vectors of its Newton
\* iteration
TrialVectors == {TZero, [i \in TDofs |-> IF i = 1 THEN 1 ELSE 0], [i \in TDofs |-> i]}

\* a thermal material: density rho, specific heat capacity cp0 + cp1 * u and
\* thermal flux -kappa * du_dx; and a source of constant strength
ThermalMaterial(rho, cp0, cp1, kappa) == [rho |-> rho, cp0 |-> cp0, cp1 |-> cp1, kappa |-> kappa]
specificHeatCapacity(material, u) == material.cp0 + material.cp1 * u
density(material) == material.rho

\* the functionals before setMaterial: no integral has been added
NoMaterial == ThermalMaterial(0, 0, 0, 0)

ThermalMaterials ==
  {ThermalMaterial(1, 1, 0, 1), ThermalMaterial(2, 1, 1, 1), ThermalMaterial(1, 2, 0, 3)}

\* Functional::SetEssentialBC: the entries of essential dofs are left out of
\* a functional's value
Constrained(ess, r) == [i \in TDofs |-> IF i \in ess THEN 0 ELSE r[i]]

\* (*M_functional_)(args): the domain integral of setMaterial, with source
\* specificHeatCapacity(x, u) * density(x) and no flux
M_functional(material, ess, arg) ==
  Constrained(ess, [i \in TDofs |-> specificHeatCapacity(material, arg[i]) * density(material)])

\* (*K_functional_)(args): the domain integrals of setMaterial and setSource,
\* with flux -1.0 * material(u, du_dx) and source -1.0 * source_function
K_functional(material, source, ess, arg) ==
  Constrained(ess,
    [i \in TDofs |->
       (IF i > 1 THEN material.kappa * (arg[i] - arg[i - 1]) ELSE 0)
       + (IF i < NTDofs THEN material.kappa * (arg[i] - arg[i + 1]) ELSE 0)
       - source])

\* the value of J_: not assembled, or the matrices it was assembled from
NullJacobian == [dt |-> 0, assembled |-> FALSE, form |-> "none", m_arg |-> TZero, k_arg |-> TZero]
Jacobian(form, m_arg, k_arg, dt) ==
  [dt |-> dt, assembled |-> TRUE, form |-> form, m_arg |-> m_arg, k_arg |-> k_arg]

\* mfem::FunctionCoefficient of a function temp(x, t) = rate * t + base +
\* slope * x; node i lies at x = i - 1
FunctionCoefficient(rate, base, slope) ==
  [rate |-> rate, base |-> base, kind |-> "function", time |-> 0, slope |-> slope]
FunctionAt(coef, i, t) == CoefAt(coef, 0, t) + coef.slope * (i - 1)

\* BoundaryCondition::projectBdr(state, time): the coefficient, evaluated at
\* time, is written to the dofs of the marked boundary
projectBdr(bc, vec, time) ==
  [i \in TDofs |-> IF i \in bc.markers THEN FunctionAt(bc.coef, i, time) ELSE vec[i]]

RECURSIVE ProjectThermalEssential(_, _, _, _)
ProjectThermalEssential(vec, bcs, time, i) ==
  IF i > Len(bcs) THEN vec
  ELSE ProjectThermalEssential(projectBdr(bcs[i], vec, time), bcs, time, i + 1)

\* the regime without timestepping options
IsQuasistatic_always(options) == TRUE

\* is_quasistatic_ as the constructor sets it from options.dyn_options
IsQuasistatic(options) == ~options

\* the state after the constructor, for the given options.dyn_options.  u_
\* is sized but not given values: it holds u0.
InitThermalWith(options, u0) ==
  /\ dyn_options = options
  /\ is_quasistatic_ = IsQuasistatic(options)
  /\ th_material = NoMaterial
  /\ th_source = 0
  /\ bcs_ = <<>>
  /\ th_essential = {}
  /\ gf_initialized_ = FALSE
  /\ th_setup = FALSE
  /\ temperature_ = TZero
  /\ time_ = 0
  /\ cycle_ = 0
  /\ dt_ = InitialDt
  /\ previous_dt_ = InitialPreviousDt
  /\ u_ = u0
  /\ previous_ = TZero
  /\ functional_call_args_ = TZero
  /\ J_ = NullJacobian
  /\ th_pc = "idle"
  /\ iterate = TZero
  /\ residual_r = TZero
  /\ residual_called = FALSE
  /\ jacobian_requests = 0
  /\ last_request_assembled = FALSE
  /\ adjoint_temperature_ = TZero
  /\ nonlin_operator = "residual_"
  /\ lin_operator = "none"
  /\ last_dual = <<>>

InitThermal ==
  \E options \in BOOLEAN, u0 \in {TZero, [i \in TDofs |-> i]} :
    InitThermalWith(options, u0)

IdleThermal == InitThermalWith(FALSE, TZero)

\* setMaterial(material), called once before completeSetup
setMaterial(material) ==
  /\ ~th_setup
  /\ th_material = NoMaterial
  /\ th_material' = material
  /\ UNCHANGED <<is_quasistatic_, th_source, bcs_, th_essential, gf_initialized_,
                 th_setup, temperature_, time_, cycle_, dt_, previous_dt_, u_, previous_,
                 functional_call_args_, J_, th_pc, iterate, residual_r, residual_called,
                 jacobian_requests, last_request_assembled>>
  /\ UNCHANGED <<dyn_options, adjoint_temperature_, nonlin_operator, lin_operator, last_dual>>
  /\ UNCHANGED <<j2vars, elvars, solidvars, cudavars>>

\* setSource(source_function), called once before completeSetup
setSource(source) ==
  /\ ~th_setup
  /\ th_source = 0
  /\ th_source' = source
  /\ UNCHANGED <<is_quasistatic_, th_material, bcs_, th_essential, gf_initialized_,
                 th_setup, temperature_, time_, cycle_, dt_, previous_dt_, u_, previous_,
                 functional_call_args_, J_, th_pc, iterate, residual_r, residual_called,
                 jacobian_requests, last_request_assembled>>
  /\ UNCHANGED <<dyn_options, adjoint_temperature_, nonlin_operator, lin_operator, last_dual>>
  /\ UNCHANGED <<j2vars, elvars, solidvars, cudavars>>

\* setTemperatureBCs(temp_bdr, temp)
setTemperatureBCs(temp_bdr, temp) ==
  /\ ~th_setup
  /\ Len(bcs_) < MaxBCs
  /\ bcs_' = Append(bcs_, [coef |-> temp, markers |-> temp_bdr])
  /\ UNCHANGED <<is_quasistatic_, th_material, th_source, th_essential, gf_initialized_,
                 th_setup, temperature_, time_, cycle_, dt_, previous_dt_, u_, previous_,
                 functional_call_args_, J_, th_pc, iterate, residual_r, residual_called, jacobian_requests, last_request_assembled>>
  /\ UNCHANGED <<dyn_options, adjoint_temperature_, nonlin_operator, lin_operator, last_dual>>
  /\ UNCHANGED <<j2vars, elvars, solidvars, cudavars>>

\* setTemperature(temp), called once before completeSetup
setTemperature(temp) ==
  /\ ~th_setup
  /\ ~gf_initialized_
  /\ temperature_' = [i \in TDofs |-> FunctionAt(SetTime(temp, time_), i, time_)]
  /\ gf_initialized_' = TRUE
  /\ UNCHANGED <<is_quasistatic_, th_material, th_source, bcs_, th_essential,
                 th_setup, time_, cycle_, dt_, previous_dt_, u_, previous_,
                 functional_call_args_, J_, th_pc, iterate, residual_r, residual_called, jacobian_requests, last_request_assembled>>
  /\ UNCHANGED <<dyn_options, adjoint_temperature_, nonlin_operator, lin_operator, last_dual>>
  /\ UNCHANGED <<j2vars, elvars, solidvars, cudavars>>

\* completeSetup(): the essential conditions are projected at time_ and
\* handed to both functionals; the residual operator is installed
completeSetup ==
  /\ ~th_setup
  /\ temperature_' = ProjectThermalEssential(temperature_, bcs_, time_, 1)
  /\ th_essential' = UNION {bcs_[i].markers : i \in DOMAIN bcs_}
  /\ th_setup' = TRUE
  /\ UNCHANGED <<is_quasistatic_, th_material, th_source, bcs_, gf_initialized_,
                 time_, cycle_, dt_, previous_dt_, u_, previous_,
                 functional_call_args_, J_, th_pc, iterate, residual_r, residual_called, jacobian_requests, last_request_assembled>>
  /\ UNCHANGED <<dyn_options, adjoint_temperature_, nonlin_operator, lin_operator, last_dual>>
  /\ UNCHANGED <<j2vars, elvars, solidvars, cudavars>>

\* FirstOrderODE, entering the solve for the rate of a step of size dt: the
\* operator's dt_ and u_ are set
OdeBeginSolve(dt, u) == [dt |-> dt, u |-> u]

\* FirstOrderODE, leaving the solve with the rate du_dt: previous_ and
\* previous_dt_ are set, and the step gives u + dt * du_dt at time + dt
OdeEndSolve(du_dt) ==
  [time |-> time_ + dt_, previous_dt |-> dt_, du_dt |-> du_dt,
   temperature |-> add(1, u_, dt_, du_dt)]

\* an iterate of the quasi-static Newton solve on temperature_.trueVec(): x
\* with the essential entries of the temperature
Constrain(temperature, x) ==
  [i \in TDofs |-> IF i \in th_essential THEN temperature[i] ELSE x[i]]

\* advanceTimestep(dt) up to the first residual evaluation of the Newton
\* solve, which starts from the iterate x0.  SLIC_ASSERT_MSG on
\* gf_initialized_ stops debug builds only; the step of a release build goes
\* on.
advanceTimestep_begin(dt, x0) ==
  /\ th_setup
  /\ th_pc = "idle"
  /\ cycle_ < MaxSteps
  /\ IF is_quasistatic_
     THEN UNCHANGED <<dt_, u_>>
     ELSE \E s \in {OdeBeginSolve(dt, temperature_)} : dt_' = s.dt /\ u_' = s.u
  /\ iterate' = IF is_quasistatic_ THEN Constrain(temperature_, x0) ELSE x0
  /\ th_pc' = "residual"
  /\ jacobian_requests' = 0
  /\ last_request_assembled' = FALSE
  /\ residual_called' = FALSE
  /\ UNCHANGED <<is_quasistatic_, th_material, th_source, bcs_, th_essential, gf_initialized_,
                 th_setup, temperature_, time_, cycle_, previous_dt_, previous_,
                 functional_call_args_, J_, residual_r>>
  /\ UNCHANGED <<dyn_options, adjoint_temperature_, nonlin_operator, lin_operator, last_dual>>
  /\ UNCHANGED <<j2vars, elvars, solidvars, cudavars>>

\* the quasi-static residual callback
QuasiStaticResidual(u) == K_functional(th_material, th_source, th_essential, u)

\* the dynamic residual callback
DynamicResidual(du_dt) ==
  add(1, M_functional(th_material, th_essential, u_),
      1, K_functional(th_material, th_source, th_essential, add(1, u_, dt_, du_dt)))

\* residual_.Mult(iterate, r), called by the Newton solver
residual_Mult ==
  /\ th_pc = "residual"
  /\ IF is_quasistatic_
     THEN /\ residual_r' = QuasiStaticResidual(iterate)
          /\ functional_call_args_' = iterate
     ELSE /\ residual_r' = DynamicResidual(iterate)
          /\ functional_call_args_' = u_
  /\ residual_called' = TRUE
  /\ th_pc' = "check"
  /\ UNCHANGED <<is_quasistatic_, th_material, th_source, bcs_, th_essential, gf_initialized_,
                 th_setup, temperature_, time_, cycle_, dt_, previous_dt_, u_, previous_,
                 J_, iterate, jacobian_requests, last_request_assembled>>
  /\ UNCHANGED <<dyn_options, adjoint_temperature_, nonlin_operator, lin_operator, last_dual>>
  /\ UNCHANGED <<j2vars, elvars, solidvars, cudavars>>

\* a gradient callback that keeps the Jacobian it has
QuasiStaticGradient_cached(u) == IF J_.assembled THEN J_ ELSE Jacobian("K", TZero, u, 0)

\* the quasi-static gradient callback: J_ after the request
QuasiStaticGradient(u) == Jacobian("K", TZero, u, 0)

\* the dynamic gradient callback: J_ after the request
DynamicGradient(du_dt) ==
  IF dt_ # previous_dt_
  THEN Jacobian("M + dt K", u_, add(1, u_, dt_, du_dt), dt_)
  ELSE J_

\* residual_.GetGradient(iterate), called by the Newton solver, which then
\* moves to the iterate x1
residual_GetGradient(x1) ==
  /\ th_pc = "check"
  /\ jacobian_requests < MaxNewtonIterations
  /\ IF is_quasistatic_
     THEN /\ J_' = QuasiStaticGradient(iterate)
          /\ last_request_assembled' = TRUE
          /\ functional_call_args_' = iterate
     ELSE /\ J_' = DynamicGradient(iterate)
          /\ last_request_assembled' = (dt_ # previous_dt_)
          /\ functional_call_args_' = IF dt_ # previous_dt_ THEN u_ ELSE functional_call_args_
  /\ jacobian_requests' = jacobian_requests + 1
  /\ iterate' = IF is_quasistatic_ THEN Constrain(temperature_, x1) ELSE x1
  /\ th_pc' = "residual"
  /\ lin_operator' = "J_"
  /\ UNCHANGED <<is_quasistatic_, th_material, th_source, bcs_, th_essential, gf_initialized_,
                 th_setup, temperature_, time_, cycle_, dt_, previous_dt_, u_, previous_,
                 residual_r, residual_called>>
  /\ UNCHANGED <<dyn_options, adjoint_temperature_, nonlin_operator, last_dual>>
  /\ UNCHANGED <<j2vars, elvars, solidvars, cudavars>>

\* advanceTimestep(dt) from the return of the Newton solve, at its last
\* iterate, to the end
advanceTimestep_end ==
  /\ th_pc = "check"
  /\ IF is_quasistatic_
     THEN /\ temperature_' = iterate
          /\ UNCHANGED <<time_, previous_dt_, previous_>>
     ELSE \E s \in {OdeEndSolve(iterate)} :
            /\ temperature_' = s.temperature
            /\ time_' = s.time
            /\ previous_dt_' = s.previous_dt
            /\ previous_' = s.du_dt
  /\ cycle_' = NextCycle(cycle_)
  /\ th_pc' = "idle"
  /\ UNCHANGED <<is_quasistatic_, th_material, th_source, bcs_, th_essential, gf_initialized_,
                 th_setup, dt_, u_, functional_call_args_, J_, iterate, residual_r,
                 residual_called, jacobian_requests, last_request_assembled>>
  /\ UNCHANGED <<dyn_options, adjoint_temperature_, nonlin_operator, lin_operator, last_dual>>
  /\ UNCHANGED <<j2vars, elvars, solidvars, cudavars>>

\* the adjoint problem without regard to the supplied dual
AdjointEssential_homogeneous(dual_with_essential_boundary) == TZero

\* adjoint_essential: zero, or the true vector of the supplied dual; the
\* optional argument is <<>> for nullptr and <<v>> for a dual of values v
AdjointEssential(dual_with_essential_boundary) ==
  IF dual_with_essential_boundary = <<>> THEN TZero ELSE dual_with_essential_boundary[1]

\* the dofs of bcs_.essentials()
EssentialsOf(bcs) == UNION {bcs[i].markers : i \in DOMAIN bcs}

\* eliminateFromMatrix and eliminateToRHS for every essential condition,
\* then lin_solver.Mult: the essential entries of the solution are those of
\* adjoint_essential, the others are the linear solver's, x
EliminateAndSolve(ess, adjoint_essential, x) ==
  [i \in TDofs |-> IF i \in ess THEN adjoint_essential[i] ELSE x[i]]

\* solveAdjoint(adjoint_load, dual_with_essential_boundary), called when the
\* forward analysis is set up, whose linear solve ends at x
solveAdjoint(dual_with_essential_boundary, x) ==
  /\ th_setup
  /\ th_pc = "idle"
  /\ last_dual' = dual_with_essential_boundary
  /\ functional_call_args_' = temperature_
  /\ lin_operator' = "J_T"
  /\ adjoint_temperature_' =
       EliminateAndSolve(EssentialsOf(bcs_), AdjointEssential(dual_with_essential_boundary), x)
  /\ nonlin_operator' = "residual_"
  /\ UNCHANGED <<is_quasistatic_, th_material, th_source, bcs_, th_essential, gf_initialized_,
                 th_setup, temperature_, time_, cycle_, dt_, previous_dt_, u_, previous_,
                 J_, th_pc, iterate, residual_r, residual_called, jacobian_requests,
                 last_request_assembled, dyn_options>>
  /\ UNCHANGED <<j2vars, elvars, solidvars, cudavars>>

\* ------------------------------------------------------------------------
\* QuadratureData on the device: the fill and copy kernels
\* ------------------------------------------------------------------------
\* the entries of a QuadratureData over the mesh
Slots(ne, nqp) == (0 .. (ne - 1)) \X (0 .. (nqp - 1))

\* dim3 grids{num_elements / elements_per_block}
grids(ne) == ne \div elements_per_block

\* the threads of a launch <<<grids, blocks>>> with
\* blocks{elements_per_block, num_quadrature_points}: <<blockIdx.x,
\* threadIdx.x, threadIdx.y>>
Threads(ne, nqp) ==
  (0 .. (grids(ne) - 1)) \X (0 .. (elements_per_block - 1)) \X (0 .. (nqp - 1))

\* int elem_id = threadIdx.x + blockIdx.x * blockDim.x
ElemId(t) == t[2] + t[1] * elements_per_block
\* int quad_id = threadIdx.y
QuadId(t) == t[3]

\* what the storage of a QuadratureData<int> may hold before any kernel has
\* written to it
StorageValues == {0, 7}

\* the test after both kernels have been launched on the default stream
InitCuda ==
  /\ num_elements \in 1 .. MaxElements
  /\ num_quadrature_points \in 1 .. MaxQuadraturePoints
  /\ \E v \in StorageValues :
       qd_source = [s \in Slots(num_elements, num_quadrature_points) |-> v]
  /\ \E v \in StorageValues :
       qd_destination = [s \in Slots(num_elements, num_quadrature_points) |-> v]
  /\ fill_threads = Threads(num_elements, num_quadrature_points)
  /\ copy_threads = Threads(num_elements, num_quadrature_points)
  /\ synchronized = FALSE

IdleCuda ==
  /\ num_elements = 0
  /\ num_quadrature_points = 0
  /\ qd_source = <<>>
  /\ qd_destination = <<>>
  /\ fill_threads = {}
  /\ copy_threads = {}
  /\ synchronized = TRUE

\* one thread of fill
fill(t) ==
  /\ t \in fill_threads
  /\ fill_threads' = fill_threads \ {t}
  /\ qd_source' =
       IF ElemId(t) < num_elements /\ QuadId(t) < num_quadrature_points
       THEN [qd_source EXCEPT ![<<ElemId(t), QuadId(t)>>] = ElemId(t) * ElemId(t) + QuadId(t)]
       ELSE qd_source
  /\ UNCHANGED <<num_elements, num_quadrature_points, qd_destination, copy_threads, synchronized>>
  /\ UNCHANGED <<j2vars, elvars, solidvars, thermalvars>>

\* one thread of copy; kernels of one stream run in launch order, so no
\* thread of copy runs before the last thread of fill has
copy(t) ==
  /\ fill_threads = {}
  /\ t \in copy_threads
  /\ copy_threads' = copy_threads \ {t}
  /\ qd_destination' =
       IF ElemId(t) < num_elements /\ QuadId(t) < num_quadrature_points
       THEN [qd_destination EXCEPT ![<<ElemId(t), QuadId(t)>>] = qd_source[<<ElemId(t), QuadId(t)>>]]
       ELSE qd_destination
  /\ UNCHANGED <<num_elements, num_quadrature_points, qd_source, fill_threads, synchronized>>
  /\ UNCHANGED <<j2vars, elvars, solidvars, thermalvars>>

\* cudaDeviceSynchronize(): returns when both kernels have finished
cudaDeviceSynchronize ==
  /\ ~synchronized
  /\ fill_threads = {}
  /\ copy_threads = {}
  /\ synchronized' = TRUE
  /\ UNCHANGED <<num_elements, num_quadrature_points, qd_source, qd_destination, fill_threads,
                 copy_threads>>
  /\ UNCHANGED <<j2vars, elvars, solidvars, thermalvars>>

\* ------------------------------------------------------------------------
\* Specifications
\* ------------------------------------------------------------------------
NextJ2 == \E du \in J2Gradients, trial \in BOOLEAN : EvalJ2(du, trial)

InitSpecJ2 == InitJ2 /\ IdleElastic /\ IdleSolid /\ IdleThermal /\ IdleCuda

SpecJ2 == InitSpecJ2 /\ [][NextJ2]_vars

NextElastic ==
  \/ \E du \in ElasticGradients : EvalLinearIsotropic(du)
  \/ \E du \in ElasticGradients : EvalNeoHookean(du)

InitSpecElastic == InitElastic /\ IdleJ2 /\ IdleSolid /\ IdleThermal /\ IdleCuda

SpecElastic == InitSpecElastic /\ [][NextElastic]_vars

NextSolid ==
  \/ \E b \in BdrMarkers : SetDisplacementBCs(b, VectorCoefficient(1, 0))
  \/ \E c \in Comps : SetDisplacementBCsComponent({1}, ScalarCoefficient(0, 1), c)
  \/ \E r \in CoefRates : SetDisplacement(VectorCoefficient(r, 1))
  \/ \E r \in CoefRates : SetVelocity(VectorCoefficient(r, 0))
  \/ CompleteSetup
  \/ \E dt \in TimestepSizes, converged \in BOOLEAN : AdvanceTimestep(dt, converged)
InitSpecSolid == InitSolid /\ IdleJ2 /\ IdleElastic /\ IdleThermal /\ IdleCuda
SpecSolid == InitSpecSolid /\ [][NextSolid]_vars

\* Setup of the solid solver with every kind of registered condition: lists
\* of true dofs that are unsorted, repeated or of another component, and
\* coefficients of either variant
TrueDofLists == {<<3, 1, 3>>, <<0, 1>>}
NextSolidSetup ==
  \/ \E b \in BdrMarkers : SetDisplacementBCs(b, VectorCoefficient(1, 0))
  \/ \E c \in Comps : SetDisplacementBCsComponent({1}, ScalarCoefficient(0, 1), c)
  \/ \E l \in TrueDofLists, c \in {-1, 1}, coef \in {ScalarCoefficient(0, 2), VectorCoefficient(0, 2)} :
       SetTrueDofs(l, coef, c)
  \/ SetTractionBCs({2}, VectorCoefficient(0, 1), -1)
  \/ SetNaturalBCs({2}, ScalarCoefficient(0, 1), 0)
  \/ CompleteSetup
  \/ AdvanceTimestep(1, TRUE)
InitSpecSolidSetup == InitSolid /\ IdleJ2 /\ IdleElastic /\ IdleThermal /\ IdleCuda
SpecSolidSetup == InitSpecSolidSetup /\ [][NextSolidSetup]_vars

NextCuda ==
  \/ \E t \in Threads(MaxElements, MaxQuadraturePoints) : fill(t)
  \/ \E t \in Threads(MaxElements, MaxQuadraturePoints) : copy(t)
  \/ cudaDeviceSynchronize
InitSpecCuda == InitCuda /\ IdleJ2 /\ IdleElastic /\ IdleSolid /\ IdleThermal
SpecCuda == InitSpecCuda /\ [][NextCuda]_vars

NextThermal ==
  \/ setTemperatureBCs({1}, FunctionCoefficient(1, 1, 0))
  \/ \E slope \in {0, 1} : setTemperature(FunctionCoefficient(1, 0, slope))
  \/ \E material \in ThermalMaterials : setMaterial(material)
  \/ setSource(1)
  \/ completeSetup
  \/ \E dt \in TimestepSizes, x0 \in TrialVectors : advanceTimestep_begin(dt, x0)
  \/ residual_Mult
  \/ \E x1 \in TrialVectors : residual_GetGradient(x1)
  \/ advanceTimestep_end

InitSpecThermal == InitThermal /\ IdleJ2 /\ IdleElastic /\ IdleSolid /\ IdleCuda

SpecThermal == InitSpecThermal /\ [][NextThermal]_vars

\* The thermal solver with the adjoint solve
AdjointDuals == {<<>>, <<[i \in TDofs |-> 5]>>}
NextAdjoint ==
  \/ setTemperatureBCs({1}, FunctionCoefficient(1, 1, 0))
  \/ setTemperature(FunctionCoefficient(1, 0, 1))
  \/ setMaterial(ThermalMaterial(1, 1, 0, 1))
  \/ setSource(1)
  \/ completeSetup
  \/ \E x0 \in TrialVectors : advanceTimestep_begin(1, x0)
  \/ residual_Mult
  \/ \E x1 \in TrialVectors : residual_GetGradient(x1)
  \/ advanceTimestep_end
  \/ \E dual \in AdjointDuals, x \in {TZero, [i \in TDofs |-> 1]} : solveAdjoint(dual, x)
InitSpecAdjoint == InitThermal /\ IdleJ2 /\ IdleElastic /\ IdleSolid /\ IdleCuda
SpecAdjoint == InitSpecAdjoint /\ [][NextAdjoint]_vars

\* Both solvers side by side: registration of essential conditions, setup,
\* steps and the adjoint solve, each with one input
NextSolvers ==
  \/ SetDisplacementBCs({1}, VectorCoefficient(1, 0))
  \/ CompleteSetup
  \/ AdvanceTimestep(1, TRUE)
  \/ setTemperatureBCs({1}, FunctionCoefficient(1, 1, 0))
  \/ completeSetup
  \/ advanceTimestep_begin(1, TZero)
  \/ residual_Mult
  \/ residual_GetGradient([i \in TDofs |-> i])
  \/ advanceTimestep_end
  \/ solveAdjoint(<<>>, TZero)
InitSpecSolvers ==
  \E options \in BOOLEAN :
    InitSolid /\ InitThermalWith(options, TZero) /\ IdleJ2 /\ IdleElastic /\ IdleCuda
SpecSolvers == InitSpecSolvers /\ [][NextSolvers]_vars

\* ------------------------------------------------------------------------
\* Claims about the material layer
\* ------------------------------------------------------------------------
\* the predictor of the last J2 evaluation, from the State it was given
LastPredictor == Predictor(mat, prev_state, du_dX)

\* A = c * B for some c > 0
SameDirection(A, B) ==
  Val(inner(A, B), LAMBDA ab : RPos(ab) /\ TScale(NormSq(B), A) = TScale(ab, B))

\* C1: the State is mutated only for a converged step: it always equals the
\* State left by the last evaluation made for a converged step, whatever
\* Newton trial evaluations followed it.
C1_StateIsCommittedState == state = committed

\* C2: when phi <= 0 for the incoming State, the State after the call is the
\* State before it and the returned stress is the trial stress s + p * I.
C2_ElasticStepLeavesState ==
  evals > 0 =>
    Val(LastPredictor, LAMBDA t :
      ~RPos(t.phi) => (state = prev_state /\ stress = Cauchy(t.s, t.p)))

\* an evaluation exactly on the yield surface (phi = 0, eta # 0), from a
\* State with plastic history
C2_Witness ==
  /\ evals > 0
  /\ LastPredictor.phi = RZero
  /\ LastPredictor.qsq # RZero
  /\ prev_state # ZeroState
  /\ state = prev_state

\* C3: evaluating twice in a row at the same displacement gradient returns
\* the same stress both times, and the State after the second evaluation is
\* the State after the first.
C3_RepeatedEvaluationIdempotent ==
  (evals >= 2 /\ du_dX = prev_du) => (stress = prev_stress /\ state = prev_state)

\* two evaluations in a row at one gradient, the first of them plastic
C3_Witness ==
  /\ evals = 2
  /\ du_dX = prev_du
  /\ state # ZeroState
  /\ stress = prev_stress

\* the changes a plastic evaluation with predictor t and increment inc makes:
\* dP to plastic_strain, dB to beta, dS off the deviatoric stress
ReturnMappingChanges(t, inc, inc2, dP, dB, dS) ==
  /\ state.accumulated_plastic_strain = RAdd(prev_state.accumulated_plastic_strain, inc)
  /\ NormSq(dP) = RMul(Rat(3, 2), inc2)
  /\ SameDirection(dP, t.eta)
  /\ NormSq(dB) = RMul(Rat(2, 3), RMul(RMul(mat.Hk, mat.Hk), inc2))
  /\ (mat.Hk = RZero \/ SameDirection(dB, t.eta))
  /\ NormSq(dS) = RMul(R(6), RMul(RMul(J2G(mat), J2G(mat)), inc2))
  /\ SameDirection(dS, t.eta)
  /\ (mat.sigma_y = ROne /\ t.phi = RMul(R(2), Denominator(mat))) =>
        RSub(state.accumulated_plastic_strain,
             prev_state.accumulated_plastic_strain) = R(2)

\* C4: when phi > 0, one evaluation raises accumulated_plastic_strain by
\* phi / (3G + Hk + Hi), adds sqrt(3/2)*inc*n to plastic_strain and
\* sqrt(2/3)*Hk*inc*n to beta, and takes sqrt(6)*G*inc*n off the deviatoric
\* stress (n the unit tensor along eta);  with sigma_y = 1 and
\* phi = 2*(3G + Hk + Hi) the accumulated plastic strain rises by 2.
C4_ReturnMapping ==
  evals > 0 =>
    Val(LastPredictor, LAMBDA t :
      RPos(t.phi) =>
        Val(<<RDiv(t.phi, Denominator(mat)),
              TSub(state.plastic_strain, prev_state.plastic_strain),
              TSub(state.beta, prev_state.beta),
              TSub(t.s, TSub(stress, TScale(t.p, Identity(3))))>>, LAMBDA d :
          ReturnMappingChanges(t, d[1], RMul(d[1], d[1]), d[2], d[3], d[4])))

\* a plastic evaluation with sigma_y = 1, hardening, and phi = 2*(3G + Hk + Hi)
C4_Witness ==
  /\ evals > 0
  /\ mat.sigma_y = ROne
  /\ mat.Hi # RZero
  /\ mat.Hk # RZero
  /\ LastPredictor.phi = RMul(R(2), Denominator(mat))
  /\ RSub(state.accumulated_plastic_strain, prev_state.accumulated_plastic_strain) = R(2)

\* C5: for a zero displacement gradient LinearIsotropic and NeoHookean return
\* the zero stress tensor, whatever K and G.
C5_ZeroGradientZeroStress ==
  /\ (lin_called /\ lin_du = Zero(TDim(lin_du))) => lin_stress = Zero(TDim(lin_du))
  /\ (neo_called /\ neo_du = Zero(TDim(neo_du))) =>
        (NeoIsZero(neo_stress) /\ TDim(neo_stress.rest) = TDim(neo_du))

\* both models evaluated at the zero gradient, with K # 2G/3 (lambda # 0)
C5_Witness ==
  /\ lin_called /\ lin_du = Zero(2) /\ lin_stress = Zero(2)
  /\ neo_called /\ neo_du = Zero(3) /\ NeoIsZero(neo_stress)
  /\ neo_stress.logCoef # RZero

\* ------------------------------------------------------------------------
\* Claims about NonlinearSolidSolver
\* ------------------------------------------------------------------------
\* the essential conditions that constrain true dof d
ConditionsOn(d) == {i \in DOMAIN m_ess_bdr : d \in SeqRange(m_ess_bdr[i].true_dofs)}

\* the boundary value prescribed for the essential true dof d at time t, by
\* the condition registered last among those that constrain d
PrescribedValue(d, t) ==
  Val(CHOOSE i \in ConditionsOn(d) : \A j \in ConditionsOn(d) : j <= i, LAMBDA i :
    CoefAt(m_ess_bdr[i].coef, VDofToComp(d), t))

C9_NonConvergenceReported ==
  (m_cycle > 0 /\ ~newton_converged) => step_failed

\* C10: a step whose Newton solve did not converge leaves the solver as it
\* was before the step: fields, node coordinates, time and cycle.
C10_FailedStepLeavesSolver ==
  (m_cycle > 0 /\ ~newton_converged) => Snapshot = before

\* ------------------------------------------------------------------------
\* Claims about ThermalConductionFunctional
\* ------------------------------------------------------------------------
\* C7: in the dynamic operator, a Jacobian request that follows another
\* request of the same step, the timestep being unchanged between them,
\* returns the cached Jacobian and assembles nothing; a changed timestep is
\* paid for by the first request only.
C7_LaterRequestsReuseJacobian ==
  (~is_quasistatic_ /\ jacobian_requests >= 2) => ~last_request_assembled

\* C8: the dynamic residual for the trial rate r is the mass form applied to
\* r plus the stiffness form at the predicted state u + dt * r.
C8_DynamicResidualOfRate ==
  (~is_quasistatic_ /\ th_pc = "check") =>
    residual_r = add(1, M_functional(th_material, th_essential, iterate),
                     1, K_functional(th_material, th_source, th_essential,
                                     add(1, u_, dt_, iterate)))

\* C11: after every quasi-static AdvanceTimestep the deformed nodes are the
\* reference nodes, as captured at construction and never modified, plus the
\* displacement field, and the geometry is updated once in that step: the
\* deformed nodes change only in a step that raises the cycle count by one.
C11_DeformedIsReferencePlusDisplacement ==
  /\ []((m_timestepper = "QuasiStatic" /\ m_cycle > 0) =>
          (/\ m_reference_nodes = MeshNodes
           /\ m_deformed_nodes = VAdd(m_reference_nodes, disp_gf)
           /\ mesh_nodes = "deformed"))
  /\ [][/\ m_reference_nodes' = m_reference_nodes
        /\ (m_deformed_nodes' # m_deformed_nodes => m_cycle' = m_cycle + 1)]_vars
C11_Witness ==
  /\ m_timestepper = "QuasiStatic"
  /\ m_cycle = 2
  /\ disp_gf # ZeroVector
  /\ disp_gf # before.disp_gf
  /\ m_deformed_nodes # MeshNodes

\* conditions of m_ess_bdr and m_nat_bdr by what was registered
IsMismatched(bc) ==
  /\ bc.component # -1
  /\ \E i \in DOMAIN bc.true_dofs : bc.true_dofs[i] % Dim # bc.component
HasWrongCoefficient(bc) ==
  \/ bc.component = -1 /\ bc.coef.kind = "scalar"
  \/ bc.component # -1 /\ bc.coef.kind = "vector"
WellFormedCoefficients ==
  /\ \A i \in DOMAIN m_ess_bdr : ~HasWrongCoefficient(m_ess_bdr[i])
  /\ \A i \in DOMAIN m_nat_bdr : m_nat_bdr[i].coef.kind = "vector"

\* C14: the essential true-dof list handed to the nonlinear form by
\* CompleteSetup is sorted ascending, has no duplicates, and is as a set the
\* union of the true-dof lists of all registered essential conditions,
\* however many of them overlap.
C14_EssentialDofsSortedUnion ==
  setup_done =>
    /\ \A i, j \in DOMAIN essential_dofs : i < j => essential_dofs[i] < essential_dofs[j]
    /\ SeqRange(essential_dofs) =
         UNION {SeqRange(m_ess_bdr[i].true_dofs) : i \in DOMAIN m_ess_bdr}
C14_Witness ==
  /\ setup_done
  /\ Len(m_ess_bdr) = 2
  /\ SeqRange(m_ess_bdr[1].true_dofs) \cap SeqRange(m_ess_bdr[2].true_dofs) # {}
  /\ m_ess_bdr[1].true_dofs = <<3, 1, 3>>
  /\ Len(essential_dofs) < Len(m_ess_bdr[1].true_dofs) + Len(m_ess_bdr[2].true_dofs)
  /\ Len(essential_dofs) > 2

\* C15: a single-component condition with a true dof that is not a dof of
\* its component makes CompleteSetup log a warning and nothing more: setup
\* is not aborted by it and the dof is in the essential set.
C15_MismatchWarnsOnly ==
  /\ (setup_done \/ aborted) =>
       \A i \in DOMAIN m_ess_bdr :
         (IsMismatched(m_ess_bdr[i]) /\ WellFormedCoefficients) =>
           /\ setup_done
           /\ ~aborted
           /\ warnings > 0
           /\ SeqRange(m_ess_bdr[i].true_dofs) \subseteq SeqRange(essential_dofs)
  /\ aborted => ~WellFormedCoefficients
C15_Witness ==
  /\ setup_done
  /\ m_cycle > 0
  /\ warnings = 2
  /\ \E i \in DOMAIN m_ess_bdr :
       /\ IsMismatched(m_ess_bdr[i])
       /\ 0 \in SeqRange(m_ess_bdr[i].true_dofs)
       /\ 0 \in SeqRange(essential_dofs)

\* C16: a component mismatch is a fatal configuration error: CompleteSetup
\* aborts on it, so setup never completes and no step is taken with a
\* mismatched condition registered.
C16_MismatchIsFatal ==
  (\E i \in DOMAIN m_ess_bdr : IsMismatched(m_ess_bdr[i])) => (~setup_done /\ m_cycle = 0)

\* the first essential condition whose coefficient is of the wrong variant
FirstWrong ==
  CHOOSE i \in DOMAIN m_ess_bdr :
    /\ HasWrongCoefficient(m_ess_bdr[i])
    /\ \A j \in 1 .. (i - 1) : ~HasWrongCoefficient(m_ess_bdr[j])

\* C17: a coefficient of the wrong variant is fatal in CompleteSetup: a
\* traction with a non-vector coefficient, an all-component displacement
\* condition with a non-vector coefficient and a single-component one with
\* a non-scalar coefficient each abort setup, before that coefficient is
\* used: setup never completes, no step follows, and the displacement holds
\* the projections of the conditions before the wrong one only.
C17_WrongVariantIsFatal ==
  /\ [](~WellFormedCoefficients => (~setup_done /\ m_cycle = 0 /\ essential_dofs = <<>>))
  /\ [][(aborted' /\ ~aborted /\ (\A i \in DOMAIN m_nat_bdr : m_nat_bdr[i].coef.kind = "vector"))
          => disp_gf' = ProjectEssential(disp_gf, <<>>, 0,
                                         SubSeq(m_ess_bdr, 1, FirstWrong - 1), 1).gf]_vars
  /\ [][(~WellFormedCoefficients /\ ~aborted) =>
          (aborted' \/ (~setup_done' /\ m_cycle' = m_cycle))]_vars
  /\ [][(aborted' /\ ~aborted /\ (\E i \in DOMAIN m_nat_bdr : m_nat_bdr[i].coef.kind # "vector"))
          => disp_gf' = disp_gf]_vars
C17_Witness ==
  /\ aborted
  /\ Len(m_ess_bdr) = 2
  /\ ~HasWrongCoefficient(m_ess_bdr[1])
  /\ HasWrongCoefficient(m_ess_bdr[2])
  /\ m_ess_bdr[2].component = -1
  /\ disp_gf # ZeroVector

C12_RegimeIsFixed ==
  /\ [](is_quasistatic_ = ~dyn_options)
  /\ [][is_quasistatic_' = is_quasistatic_ /\ dyn_options' = dyn_options]_vars
C12_Witness ==
  /\ dyn_options
  /\ ~is_quasistatic_
  /\ cycle_ = 2
  /\ lin_operator = "J_T"
  /\ bcs_ # <<>>
  /\ m_cycle > 0

\* C13: each completed advanceTimestep, quasi-static or dynamic, of either
\* solver increases its cycle counter by exactly one, and nothing else
\* changes the counter.
C13_CycleCountsSteps ==
  /\ [][m_cycle' # m_cycle => (setup_done /\ m_cycle' = m_cycle + 1 /\ before' = Snapshot)]_vars
  /\ [][(setup_done /\ solidvars' # solidvars) => m_cycle' = m_cycle + 1]_vars
  /\ [][cycle_' # cycle_ => (th_pc = "check" /\ th_pc' = "idle" /\ cycle_' = cycle_ + 1)]_vars
  /\ [][(th_pc = "check" /\ th_pc' = "idle") => cycle_' = cycle_ + 1]_vars
C13_Witness ==
  /\ m_cycle = 2
  /\ cycle_ = 2
  /\ lin_operator = "J_T"

\* C18: solveAdjoint gives the essential dofs of the adjoint zero values when
\* no dual_with_essential_boundary is passed and the values of the dual
\* otherwise; it leaves the forward temperature, time and cycle unchanged;
\* on return the nonlinear solver holds the full residual operator.
C18_AdjointEssentialValues ==
  /\ [](lin_operator = "J_T" =>
          \A i \in EssentialsOf(bcs_) :
            adjoint_temperature_[i] = (IF last_dual = <<>> THEN 0 ELSE last_dual[1][i]))
  /\ [](nonlin_operator = "residual_")
  /\ [][(adjoint_temperature_' # adjoint_temperature_ \/ last_dual' # last_dual
            \/ (lin_operator' = "J_T" /\ lin_operator # "J_T"))
          => (temperature_' = temperature_ /\ time_' = time_ /\ cycle_' = cycle_
              /\ th_pc' = "idle" /\ nonlin_operator' = "residual_")]_vars
C18_Witness ==
  /\ lin_operator = "J_T"
  /\ last_dual # <<>>
  /\ EssentialsOf(bcs_) # {}
  /\ adjoint_temperature_[1] = 5
  /\ adjoint_temperature_[2] = 1
  /\ temperature_ # TZero
  /\ cycle_ > 0

\* C20: the quasi-static operator never returns a stale Jacobian: every
\* Jacobian request for a trial vector u leaves J_ assembled from that u.
C20_JacobianOfTrialVector ==
  [][(is_quasistatic_ /\ jacobian_requests' = jacobian_requests + 1) =>
       (J_'.assembled /\ J_'.form = "K" /\ J_'.k_arg = iterate)]_vars
C20_Witness ==
  /\ is_quasistatic_
  /\ th_pc = "residual"
  /\ jacobian_requests = 2
  /\ J_.assembled
  /\ J_.k_arg = functional_call_args_
  /\ J_.k_arg # temperature_
  /\ J_.k_arg # TZero

\* C21: in the quasi-static regime the Newton solve of each step starts from
\* the solution of the step before: the initial iterate of step k+1 is the
\* displacement true-dof vector left by step k, and that of the first step
\* is the displacement as projected at setup; in the dynamic regime the
\* Newton solver is not in iterative mode.
C21_WarmStart ==
  /\ [](setup_done => (iterative_mode <=> m_timestepper = "QuasiStatic"))
  /\ [][(m_timestepper = "QuasiStatic" /\ m_cycle' = m_cycle + 1) =>
          /\ newton_initial' = disp_gf
          /\ m_cycle > 0 => newton_initial' = disp_true]_vars
C21_Witness ==
  /\ m_timestepper = "QuasiStatic"
  /\ m_cycle = 2
  /\ newton_initial # ZeroVector
  /\ newton_initial = before.disp_true
  /\ newton_initial # disp_true
  /\ essential_dofs # <<>>

\* the predictor of the last evaluation's gradient, from the State it left
UpdatedPredictor == Predictor(mat, state, du_dX)

\* C22: plastic consistency: after an evaluation with phi > 0, the yield
\* function evaluated again at the same displacement gradient with the updated
\* State is exactly zero, and the returned stress is the trial stress s + p*I
\* computed from the updated plastic strain.
C22_PlasticConsistency ==
  (evals > 0 /\ RPos(LastPredictor.phi)) =>
    Val(UpdatedPredictor, LAMBDA u :
      /\ IsRSquare(u.qsq)
      /\ u.phi = RZero
      /\ stress = Cauchy(u.s, u.p))

\* a plastic evaluation of a material with both hardening constants, from a
\* State with plastic history
C22_Witness ==
  /\ evals = 2
  /\ RPos(LastPredictor.phi)
  /\ mat.Hi # RZero
  /\ mat.Hk # RZero
  /\ prev_state # ZeroState
  /\ state.beta # prev_state.beta
  /\ UpdatedPredictor.phi = RZero

\* C23: for a J2 material with G > 0, Hk >= 0 and Hi >= 0 the accumulated
\* plastic strain never decreases from one evaluation to the next, and it
\* changes only in an evaluation whose yield function phi is positive.
C23_AccumulatedPlasticStrainMonotone ==
  [][(RPos(J2G(mat)) /\ RLe(RZero, mat.Hk) /\ RLe(RZero, mat.Hi)) =>
       /\ RLe(state.accumulated_plastic_strain, state'.accumulated_plastic_strain)
       /\ state'.accumulated_plastic_strain # state.accumulated_plastic_strain =>
             RPos(Predictor(mat, state, du_dX').phi)]_vars

\* an evaluation strictly inside the yield surface (phi < 0, eta # 0) that
\* follows a plastic one and leaves the accumulated plastic strain as it was
C23_Witness ==
  /\ evals = 2
  /\ RPos(J2G(mat)) /\ RLe(RZero, mat.Hk) /\ RLe(RZero, mat.Hi)
  /\ RPos(prev_state.accumulated_plastic_strain)
  /\ RLt(LastPredictor.phi, RZero)
  /\ LastPredictor.qsq # RZero
  /\ state.accumulated_plastic_strain = prev_state.accumulated_plastic_strain

\* C24: the dynamic gradient callback never returns an unassembled Jacobian:
\* after any Jacobian request of a dynamic step J_ holds an assembled matrix,
\* assembled by that request or by an earlier one.
C24_JacobianNeverNull ==
  (~is_quasistatic_ /\ jacobian_requests > 0) => J_.assembled

====
